---------------------------- MODULE Spec2Model ----------------------------
(***************************************************************************)
(* A model of cmdapp/src/converter.rs: the conversion of a raster image    *)
(* into an SVG document (transparency keying, one or two clustering        *)
(* passes, path building, and the writing of the document).                *)
(*                                                                         *)
(* The clustering engine, the path tracer and the file system are outside  *)
(* the file; they are modelled as nondeterministic capabilities whose      *)
(* results are drawn from small sets.                                      *)
(***************************************************************************)
EXTENDS Integers, Sequences, FiniteSets, TLC

VARIABLES
    pc,          \* position of the conversion in convert_image_to_svg
    config,      \* the ConverterConfig of the conversion
    source,      \* the decoded content of the input file (never modified)
    img,         \* the image owned by the running stage (keyed in place)
    should_key,  \* the value should_key_image returned
    key_color,   \* the local key_color of color_image_to_svg
    calls,       \* the invocations of the clustering engine, in order
    clusters,    \* the local clusters (the latest engine result)
    svg,         \* the SvgFile under construction (its list of paths)
    result,      \* what convert_image_to_svg returned
    file,        \* the destination file
    cands,       \* the candidates a run of the unused-color search tested
    results      \* the results of the runs of the unused-color search

vars == <<pc, config, source, img, should_key, key_color, calls, clusters,
          svg, result, file, cands, results>>

---------------------------------------------------------------------------
(* Bounds of the model *)

\* images of the conversion have at most this many pixels
MaxPixels == 3
\* the clustering engine emits at most this many clusters in a pass
MaxClusters == 2
\* filter_speckle_area ranges over 0..MaxSpeckle
MaxSpeckle == 2
\* images of the should_key_image scan are at most this wide
MaxScanWidth == 5
\* images of the should_key_image scan are at most this high
MaxScanHeight == 5
\* images of the should_key_image scan have at most this many pixels of zero
\* alpha
MaxTransparent == 2
\* the unused-color search is run this many times on one image
MaxRuns == 2

---------------------------------------------------------------------------
(* Colors and images *)

\* Color::new(r, g, b): the alpha channel is 255
ColorNew(r, g, b) == [r |-> r, g |-> g, b |-> b, a |-> 255]

NewRgba(r, g, b, a) == [r |-> r, g |-> g, b |-> b, a |-> a]

\* Color::default(): all zeroes, the "no keying" value
ColorDefault == [r |-> 0, g |-> 0, b |-> 0, a |-> 0]

\* Color::color(&ColorName::Black)
ColorBlack == ColorNew(0, 0, 0)

\* img.get_pixel(x, y) of a row-major pixel buffer
get_pixel(image, x, y) == image.pixels[y * image.width + x + 1]

\* the images of the given shapes over the given pixel values
ImagesOver(palette, shapes) ==
    UNION {{[width |-> s[1], height |-> s[2], pixels |-> p] :
               p \in [1..(s[1] * s[2]) -> palette]} : s \in shapes}

Shapes(maxW, maxH, maxPix) ==
    {s \in (0..maxW) \X (0..maxH) : s[1] * s[2] <= maxPix}

NumPixels(image) == image.width * image.height

---------------------------------------------------------------------------
(* should_key_image *)

NUM_UNUSED_COLOR_ITERATIONS == 6

\* KEYING_THRESHOLD = 0.2, as a percentage
KEYING_THRESHOLD_PERCENT == 20

\* ((img.width * 2) as f32 * KEYING_THRESHOLD) as usize: the product is
\* truncated towards zero.  (0.2f32 is slightly above 1/5, and for the widths
\* of the model the f32 product truncates to the same integer as the exact
\* one.)
Threshold(width) == (width * 2 * KEYING_THRESHOLD_PERCENT) \div 100

\* the five scanlines
y_positions(height) ==
    <<0, height \div 4, height \div 2, (3 * height) \div 4, height - 1>>

\* The scan loop from scanline k (1-based), column x, with the running count n.
\* The pixel is counted first, then the count is compared: the comparison is
\* made for every visited pixel, transparent or not.
RECURSIVE Scan(_, _, _, _)
Scan(image, k, x, n) ==
    IF k > 5 THEN FALSE
    ELSE IF x >= image.width THEN Scan(image, k + 1, 0, n)
    ELSE LET y == y_positions(image.height)[k]
             m == IF get_pixel(image, x, y).a = 0 THEN n + 1 ELSE n
         IN  IF m >= Threshold(image.width) THEN TRUE
             ELSE Scan(image, k, x + 1, m)

should_key_image(image) ==
    IF image.width = 0 \/ image.height = 0 THEN FALSE
    ELSE Scan(image, 1, 0, 0)

---------------------------------------------------------------------------
(* find_unused_color_in_image *)

special_colors ==
    << ColorNew(255, 0, 0), ColorNew(0, 255, 0), ColorNew(0, 0, 255),
       ColorNew(255, 255, 0), ColorNew(0, 255, 255), ColorNew(255, 0, 255) >>

\* Color::new(rng.u8(..), rng.u8(..), rng.u8(..)): the draws of the model
random_colors ==
    {ColorNew(255, 0, 0), ColorNew(0, 0, 0), ColorNew(255, 255, 255)}

\* a slip: the whole pixel, alpha included, is compared with the color
color_exists_in_image_with_alpha(image, color) ==
    \E y \in 0..(image.height - 1) : \E x \in 0..(image.width - 1) :
        get_pixel(image, x, y) = color

\* only the three color channels are compared
color_exists_in_image(image, color) ==
    \E y \in 0..(image.height - 1) : \E x \in 0..(image.width - 1) :
        LET pixel_color == get_pixel(image, x, y)
        IN  pixel_color.r = color.r /\ pixel_color.g = color.g
            /\ pixel_color.b = color.b

Ok(v) == [ok |-> TRUE, value |-> v]
Err(msg) == [ok |-> FALSE, msg |-> msg]

\* a slip: random_colors.chain(special_colors)
CandidatesAt_RandomFirst(i) ==
    IF i <= NUM_UNUSED_COLOR_ITERATIONS THEN random_colors
    ELSE {special_colors[i - NUM_UNUSED_COLOR_ITERATIONS]}

\* the candidate at position i of special_colors.chain(random_colors), either
\* the i-th fixed one or a fresh draw
CandidatesAt(i) ==
    IF i <= Len(special_colors) THEN {special_colors[i]} ELSE random_colors

\* The runs of the search loop from candidate i on, `tested` being the
\* candidates already tested: each run is [res, tested].
RECURSIVE SearchFrom(_, _, _)
SearchFrom(image, i, tested) ==
    IF i > Len(special_colors) + NUM_UNUSED_COLOR_ITERATIONS
    THEN {[res |-> Err("unable to find unused color in image to use as key"),
           tested |-> tested]}
    ELSE UNION {
           IF ~color_exists_in_image(image, color)
           THEN {[res |-> Ok(color), tested |-> Append(tested, color)]}
           ELSE SearchFrom(image, i + 1, Append(tested, color))
           : color \in CandidatesAt(i)}

find_unused_color_in_image(image) == SearchFrom(image, 1, <<>>)

---------------------------------------------------------------------------
(* The external capabilities *)

\* HIERARCHICAL_MAX of visioncortex::color_clusters: the largest depth (the
\* largest integer of the model checker stands for u32::MAX)
HIERARCHICAL_MAX == 2147483647

RECURSIVE Perms(_)
Perms(S) ==
    IF S = {} THEN {<<>>}
    ELSE UNION {{<<e>> \o p : p \in Perms(S \ {e})} : e \in S}

\* A cluster of the color clustering engine: its index in the view and its
\* residue color (the engine gives distinct clusters distinct colors here).
Cluster(i) == [index |-> i, residue_color |-> ColorNew(i, 2 * i, 3 * i)]

\* runner.run(): the engine is a black box; it emits up to MaxClusters
\* clusters in an order of its own.  The result keeps the dimensions of the
\* image it was run on.
RunnerRun(image) ==
    {[width |-> image.width, height |-> image.height,
      clusters_output |-> [k \in DOMAIN p |-> Cluster(p[k])]] :
        p \in UNION {Perms(1..n) : n \in 0..MaxClusters}}

\* view.to_color_image(): the flattened composite of a view, one
\* representative color per region; it stands for itself.
to_color_image(view) ==
    [width |-> view.width, height |-> view.height,
     flattened |-> view.clusters_output]

\* the sequences of positive sizes whose sum is `total`
RECURSIVE Compositions(_)
Compositions(total) ==
    IF total = 0 THEN {<<>>}
    ELSE UNION {{<<first>> \o rest : rest \in Compositions(total - first)} :
                  first \in 1..total}

\* img.to_binary_image(|x| x.r < 128): the foreground pixels
to_binary_image(image) ==
    [width |-> image.width, height |-> image.height,
     pixels |-> [k \in DOMAIN image.pixels |-> image.pixels[k].r < 128]]

\* img.to_clusters(false) of a binary image: connected components of the
\* foreground; the components partition the foreground pixels, so their
\* sizes are positive and add up to the number of foreground pixels.
BinaryToClusters(binary) ==
    Compositions(Cardinality({k \in DOMAIN binary.pixels : binary.pixels[k]}))

\* img.to_clusters() of a segmentation image: components of equal label;
\* their sizes are positive and add up to at most the number of pixels.
SegToClusters(image) ==
    UNION {Compositions(total) : total \in 0..NumPixels(image)}

---------------------------------------------------------------------------
(* The inputs of a conversion *)

OpaqueRed == NewRgba(255, 0, 0, 255)
TransparentBlack == NewRgba(0, 0, 0, 0)
TransparentGreen == NewRgba(0, 255, 0, 0)

\* color images: every image of at most MaxPixels pixels over three pixel
\* values
SmallColorImages ==
    ImagesOver({OpaqueRed, TransparentBlack, TransparentGreen},
               Shapes(MaxPixels, MaxPixels, MaxPixels))

\* one-row images that hold each of the six fixed candidates, and a last
\* pixel that is transparent, black or white
SaturatedImages ==
    {[width |-> 7, height |-> 1,
      pixels |-> [k \in 1..7 |->
          IF k <= 6 THEN special_colors[k] ELSE NewRgba(v, v, v, 0)]] :
        v \in {0, 255}}

\* segmentation images: only their dimensions matter to the conversion
SegImages ==
    ImagesOver({0}, Shapes(MaxPixels, MaxPixels, MaxPixels))

InputImages(color_mode) ==
    IF color_mode = "Color" THEN SmallColorImages \cup SaturatedImages
    ELSE IF color_mode = "Binary" THEN SmallColorImages
    ELSE SegImages

\* the user's settings of the clustering
Presets ==
    {[filter_speckle_area |-> 0, color_precision_loss |-> 0,
      layer_difference |-> 0],
     [filter_speckle_area |-> MaxSpeckle, color_precision_loss |-> 6,
      layer_difference |-> 16]}

Configs ==
    {[color_mode |-> "Color", hierarchical |-> h, mode |-> m,
      filter_speckle_area |-> p.filter_speckle_area,
      color_precision_loss |-> p.color_precision_loss,
      layer_difference |-> p.layer_difference, path_precision |-> 2] :
        h \in {"Stacked", "Cutout"}, m \in {"Spline", "Polygon"},
        p \in Presets}
    \cup
    {[color_mode |-> c, hierarchical |-> "Stacked", mode |-> "Polygon",
      filter_speckle_area |-> f, color_precision_loss |-> 6,
      layer_difference |-> 16, path_precision |-> 2] :
        c \in {"Binary", "Seg"}, f \in 0..MaxSpeckle}

NoClusters == [width |-> 0, height |-> 0, clusters_output |-> <<>>]

\* before the input is read there is no image
NoImage == [width |-> 0, height |-> 0, pixels |-> <<>>]

\* What convert_image_to_svg did: it is still running, it returned Ok(()) or
\* Err(text), or it panicked with the text.
Outcome(kind, text) == [kind |-> kind, text |-> text]

Running == Outcome("Running", "")

Init ==
    /\ pc = "convert"
    /\ config \in Configs
    /\ source \in InputImages(config.color_mode)
    /\ img = NoImage
    /\ should_key = FALSE
    /\ key_color = ColorDefault
    /\ calls = <<>>
    /\ clusters = NoClusters
    /\ svg = <<>>
    /\ result = Running
    /\ file = "absent"
    /\ cands = <<>>
    /\ results = <<>>

---------------------------------------------------------------------------
(* convert: the image is read and the mode dispatched *)

\* read_color_image / read_seg_image: the file is read (the content is
\* `source`) or the read fails
Convert ==
    /\ pc = "convert"
    /\ \E readable \in BOOLEAN :
         IF readable
         THEN /\ pc' = config.color_mode
              /\ img' = source
              /\ result' = result
         ELSE /\ pc' = "done"
              /\ img' = img
              /\ result' = Outcome("Err",
                                   "No image file found at specified input path")
    /\ UNCHANGED <<config, source, should_key, key_color, calls, clusters,
                   svg, file, cands, results>>

---------------------------------------------------------------------------
(* color_image_to_svg *)

\* the condition of the keying
ShouldKey ==
    /\ pc = "Color"
    /\ should_key' = should_key_image(img)
    /\ IF should_key_image(img)
       THEN /\ pc' = "key"
            /\ key_color' = key_color
       ELSE /\ pc' = "first_pass"
            /\ key_color' = ColorDefault
    /\ UNCHANGED <<config, source, img, calls, clusters, svg, result, file,
                   cands, results>>

\* a slip: only the color channels are written
set_pixel_keeping_alpha(image, k, color) ==
    [image EXCEPT !.pixels[k] =
        [r |-> color.r, g |-> color.g, b |-> color.b, a |-> @.a]]

\* img.set_pixel(x, y, &key_color): the pixel at index k of the buffer
\* becomes the color, all four channels
set_pixel(image, k, color) == [image EXCEPT !.pixels[k] = color]

\* the keying loop from the pixel at index k on (row by row, which is the
\* order of the buffer): a pixel of zero alpha is set to the key color
RECURSIVE ApplyKeyingFrom(_, _, _)
ApplyKeyingFrom(image, k, color) ==
    IF k > NumPixels(image) THEN image
    ELSE ApplyKeyingFrom(IF image.pixels[k].a = 0
                         THEN set_pixel(image, k, color) ELSE image,
                         k + 1, color)

ApplyKeying(image, color) == ApplyKeyingFrom(image, 1, color)

\* the branch taken when should_key_image holds: the search, then the loop
KeyImage ==
    /\ pc = "key"
    /\ \E run \in find_unused_color_in_image(img) :
         IF run.res.ok
         THEN /\ key_color' = run.res.value
              /\ img' = ApplyKeying(img, run.res.value)
              /\ pc' = "first_pass"
              /\ result' = result
         ELSE /\ key_color' = key_color
              /\ img' = img
              /\ pc' = "done"
              /\ result' = Outcome("Err", run.res.msg)
    /\ UNCHANGED <<config, source, should_key, calls, clusters, svg, file,
                   cands, results>>

FirstRunnerConfig(cfg, width, height, key) ==
    [diagonal |-> cfg.layer_difference = 0,
     hierarchical |-> HIERARCHICAL_MAX,
     batch_size |-> 25600,
     good_min_area |-> cfg.filter_speckle_area,
     good_max_area |-> width * height,
     is_same_color_a |-> cfg.color_precision_loss,
     is_same_color_b |-> 1,
     deepen_diff |-> cfg.layer_difference,
     hollow_neighbours |-> 1,
     key_color |-> key,
     keying_action |-> IF cfg.hierarchical = "Cutout" THEN "Keep"
                       ELSE "Discard"]

\* a slip: hollow_neighbours copied from the first pass
SecondRunnerConfig_HollowOfFirst(image, key) ==
    [diagonal |-> FALSE,
     hierarchical |-> 64,
     batch_size |-> 25600,
     good_min_area |-> 0,
     good_max_area |-> image.width * image.height,
     is_same_color_a |-> 0,
     is_same_color_b |-> 1,
     deepen_diff |-> 0,
     hollow_neighbours |-> 1,
     key_color |-> key,
     keying_action |-> "Discard"]

SecondRunnerConfig(image, key) ==
    [diagonal |-> FALSE,
     hierarchical |-> 64,
     batch_size |-> 25600,
     good_min_area |-> 0,
     good_max_area |-> image.width * image.height,
     is_same_color_a |-> 0,
     is_same_color_b |-> 1,
     deepen_diff |-> 0,
     hollow_neighbours |-> 0,
     key_color |-> key,
     keying_action |-> "Discard"]

\* Runner::new(RunnerConfig {..}, img) and runner.run()
FirstPass ==
    /\ pc = "first_pass"
    /\ clusters' \in RunnerRun(img)
    /\ calls' = Append(calls,
            [config |-> FirstRunnerConfig(config, source.width,
                                          source.height, key_color),
             image |-> img, output |-> clusters'])
    /\ pc' = IF config.hierarchical = "Cutout" THEN "second_pass" ELSE "paths"
    /\ UNCHANGED <<config, source, img, should_key, key_color, svg, result,
                   file, cands, results>>

\* a slip: the second pass is run on the image of the first
SecondPassImage_Unflattened(view, image) == image

\* the image handed to the second pass
SecondPassImage(view, image) == to_color_image(view)

\* Hierarchical::Cutout: the view is flattened and clustered again
SecondPass ==
    /\ pc = "second_pass"
    /\ LET image == SecondPassImage(clusters, img)
       IN  /\ clusters' \in RunnerRun(image)
           /\ calls' = Append(calls,
                   [config |-> SecondRunnerConfig(image, key_color),
                    image |-> image, output |-> clusters'])
    /\ pc' = "paths"
    /\ UNCHANGED <<config, source, img, should_key, key_color, svg, result,
                   file, cands, results>>

\* the path of a cluster: a circle when the simplify mode is Spline and the
\* shape of the cluster is a circle, its traced outline otherwise
ClusterPath(cluster, simplify_mode, is_circle) ==
    IF simplify_mode = "Spline" /\ is_circle
    THEN [kind |-> "circle", cluster |-> cluster.index]
    ELSE [kind |-> "compound", cluster |-> cluster.index]

\* a slip: the clusters are taken in emission order, without .rev()
ColorPaths_EmissionOrder(output, simplify_mode, circles) ==
    [k \in 1..Len(output) |->
        [path |-> ClusterPath(output[k], simplify_mode,
                              output[k].index \in circles),
         color |-> output[k].residue_color]]

\* view.clusters_output.iter().rev() and svg.add_path(paths,
\* cluster.residue_color()): the k-th path added comes from the k-th cluster
\* from the end
ColorPaths(output, simplify_mode, circles) ==
    [k \in 1..Len(output) |->
        LET cluster == output[Len(output) + 1 - k]
        IN  [path |-> ClusterPath(cluster, simplify_mode,
                                  cluster.index \in circles),
             color |-> cluster.residue_color]]

SvgFileNew(width, height, path_precision) ==
    [width |-> width, height |-> height, path_precision |-> path_precision,
     paths |-> <<>>]

\* the loop over the final clusters; to_shape(&view).is_circle() is a
\* predicate of the engine's
BuildPaths ==
    /\ pc = "paths"
    /\ \E circles \in SUBSET {c.index : c \in
                              {clusters.clusters_output[k] :
                                  k \in DOMAIN clusters.clusters_output}} :
         svg' = <<[SvgFileNew(source.width, source.height,
                              config.path_precision)
                   EXCEPT !.paths = ColorPaths(clusters.clusters_output,
                                               config.mode, circles)]>>
    /\ pc' = "write"
    /\ UNCHANGED <<config, source, img, should_key, key_color, calls,
                   clusters, result, file, cands, results>>

---------------------------------------------------------------------------
(* binary_image_to_svg and seg_image_to_svg *)

\* a slip: cluster.size() > config.filter_speckle_area
ComponentPaths_StrictFloor(sizes, filter_speckle_area) ==
    LET kept == SelectSeq([k \in DOMAIN sizes |-> [index |-> k, size |-> sizes[k]]],
                          LAMBDA c : c.size > filter_speckle_area)
    IN  [k \in DOMAIN kept |->
            [path |-> [kind |-> "compound", cluster |-> kept[k].index],
             color |-> ColorBlack]]

\* the loop over the components: a component of at least
\* filter_speckle_area pixels adds one black path
ComponentPaths(sizes, filter_speckle_area) ==
    LET kept == SelectSeq([k \in DOMAIN sizes |-> [index |-> k, size |-> sizes[k]]],
                          LAMBDA c : c.size >= filter_speckle_area)
    IN  [k \in DOMAIN kept |->
            [path |-> [kind |-> "compound", cluster |-> kept[k].index],
             color |-> ColorBlack]]

BinaryImageToSvg ==
    /\ pc = "Binary"
    /\ \E sizes \in BinaryToClusters(to_binary_image(img)) :
         /\ clusters' = [width |-> img.width, height |-> img.height,
                         clusters_output |-> sizes]
         /\ svg' = <<[SvgFileNew(img.width, img.height, config.path_precision)
                      EXCEPT !.paths =
                          ComponentPaths(sizes, config.filter_speckle_area)]>>
    /\ pc' = "write"
    /\ UNCHANGED <<config, source, img, should_key, key_color, calls, result,
                   file, cands, results>>

SegImageToSvg ==
    /\ pc = "Seg"
    /\ \E sizes \in SegToClusters(img) :
         /\ clusters' = [width |-> img.width, height |-> img.height,
                         clusters_output |-> sizes]
         /\ svg' = <<[SvgFileNew(img.width, img.height, config.path_precision)
                      EXCEPT !.paths =
                          ComponentPaths(sizes, config.filter_speckle_area)]>>
    /\ pc' = "write"
    /\ UNCHANGED <<config, source, img, should_key, key_color, calls, result,
                   file, cands, results>>

---------------------------------------------------------------------------
(* write_svg *)

\* File::create(output_path) fails and an error is returned; or the file is
\* created (empty) and write! either writes the document or fails, and the
\* failure is met with .expect("failed to write file."), which panics; the
\* file then holds a part of the document (none of it, at the least).
WriteSvg ==
    /\ pc = "write"
    /\ \E outcome \in {"create_fails", "write_fails", "written"} :
         /\ file' = CASE outcome = "create_fails" -> file
                      [] outcome = "write_fails" -> "partial"
                      [] OTHER -> "written"
         /\ result' = CASE outcome = "create_fails" ->
                              Outcome("Err", "Cannot create output file.")
                        [] outcome = "written" -> Outcome("Ok", "()")
                        [] OTHER -> Outcome("Panic", "failed to write file.")
    /\ pc' = "done"
    /\ UNCHANGED <<config, source, img, should_key, key_color, calls,
                   clusters, svg, cands, results>>

Next ==
    \/ Convert
    \/ ShouldKey
    \/ KeyImage
    \/ FirstPass
    \/ SecondPass
    \/ BuildPaths
    \/ BinaryImageToSvg
    \/ SegImageToSvg
    \/ WriteSvg

Spec == Init /\ [][Next]_vars

---------------------------------------------------------------------------
(* should_key_image on its own, over larger images *)

\* the subsets of 1..n of at most k elements
RECURSIVE SubsetsUpTo(_, _)
SubsetsUpTo(n, k) ==
    IF n = 0 \/ k = 0 THEN {{}}
    ELSE SubsetsUpTo(n - 1, k)
         \cup {T \cup {n} : T \in SubsetsUpTo(n - 1, k - 1)}

\* the red image of the given width and height whose pixels at the indices
\* in T have zero alpha
ScanImage(width, height, T) ==
    [width |-> width, height |-> height,
     pixels |-> [k \in 1..(width * height) |->
         IF k \in T THEN NewRgba(255, 0, 0, 0) ELSE OpaqueRed]]

ScanConfig ==
    [color_mode |-> "Color", hierarchical |-> "Stacked", mode |-> "Polygon",
     filter_speckle_area |-> 0, color_precision_loss |-> 6,
     layer_difference |-> 16, path_precision |-> 2]

ScanInit ==
    /\ pc = "Color"
    /\ config = ScanConfig
    /\ \E width \in 0..MaxScanWidth : \E height \in 0..MaxScanHeight :
         \E T \in SubsetsUpTo(width * height, MaxTransparent) :
             source = ScanImage(width, height, T)
    /\ img = source
    /\ should_key = FALSE
    /\ key_color = ColorDefault
    /\ calls = <<>>
    /\ clusters = NoClusters
    /\ svg = <<>>
    /\ result = Running
    /\ file = "absent"
    /\ cands = <<>>
    /\ results = <<>>

ScanSpec == ScanInit /\ [][ShouldKey]_vars

---------------------------------------------------------------------------
(* find_unused_color_in_image on its own, run several times on one image *)

SearchInit ==
    /\ pc = "search"
    /\ config = ScanConfig
    /\ source \in SmallColorImages \cup SaturatedImages
    /\ img = source
    /\ should_key = FALSE
    /\ key_color = ColorDefault
    /\ calls = <<>>
    /\ clusters = NoClusters
    /\ svg = <<>>
    /\ result = Running
    /\ file = "absent"
    /\ cands = <<>>
    /\ results = <<>>

\* one call of find_unused_color_in_image(&img): Rng::new() makes a generator
\* of its own in every call, so every call draws afresh
Search ==
    /\ pc = "search"
    /\ Len(results) < MaxRuns
    /\ \E run \in find_unused_color_in_image(img) :
         /\ results' = Append(results, run.res)
         /\ cands' = run.tested
    /\ UNCHANGED <<pc, config, source, img, should_key, key_color, calls,
                   clusters, svg, result, file>>

SearchSpec == SearchInit /\ [][Search]_vars

---------------------------------------------------------------------------
(* Vocabulary of the properties, stated on the pixels and not through the
   operators of the model *)

RowOf(image, y) == {y * image.width + x + 1 : x \in 0..(image.width - 1)}

ZeroAlphaInRow(image, y) ==
    Cardinality({k \in RowOf(image, y) : image.pixels[k].a = 0})

\* the count of zero-alpha pixels over the five sampled rows, a row sampled
\* twice counting twice
SampledCount(image) ==
    LET h == image.height
    IN  ZeroAlphaInRow(image, 0) + ZeroAlphaInRow(image, h \div 4)
        + ZeroAlphaInRow(image, h \div 2)
        + ZeroAlphaInRow(image, (3 * h) \div 4)
        + ZeroAlphaInRow(image, h - 1)

NonEmpty(image) == image.width # 0 /\ image.height # 0

\* the scan has returned
Scanned == pc \in {"key", "first_pass"}

SameRgb(p, q) == p.r = q.r /\ p.g = q.g /\ p.b = q.b

\* some pixel of the image has the color
Present(image, color) ==
    \E k \in DOMAIN image.pixels : SameRgb(image.pixels[k], color)

HasZeroAlpha(image) == \E k \in DOMAIN image.pixels : image.pixels[k].a = 0

FixedCandidates ==
    << [r |-> 255, g |-> 0, b |-> 0], [r |-> 0, g |-> 255, b |-> 0],
       [r |-> 0, g |-> 0, b |-> 255], [r |-> 255, g |-> 255, b |-> 0],
       [r |-> 0, g |-> 255, b |-> 255], [r |-> 255, g |-> 0, b |-> 255] >>

---------------------------------------------------------------------------
(* C1 *)

\* C1 as stated: should_key_image returns false for an image of zero width
\* or height, and otherwise true exactly when the count of zero-alpha pixels
\* over the five sampled rows reaches width*2*0.2 (count >= width*2/5, that
\* is 5*count >= 2*width).
C1_AsStated ==
    Scanned =>
        (should_key <=> (NonEmpty(source)
                         /\ 5 * SampledCount(source) >= 2 * source.width))

\* What the code does where C1 fails: should_key_image returns false for an
\* image of zero width or height, and otherwise true exactly when the count
\* reaches the product width*2*0.2 truncated to an integer; for widths 1 and
\* 2 that is 0, and the image is keyed whatever its pixels; an image whose
\* count stays below the truncated product is not keyed.
C1_TruncatedThreshold ==
    Scanned =>
        /\ should_key <=> (NonEmpty(source)
                           /\ SampledCount(source) >= (2 * source.width) \div 5)
        /\ (NonEmpty(source) /\ source.width <= 2) => should_key
        /\ (NonEmpty(source)
            /\ SampledCount(source) + 1 = (2 * source.width) \div 5) => ~should_key

\* an image keyed with a count that reaches the truncated product and not
\* the exact one
C1_Witness ==
    /\ Scanned
    /\ should_key
    /\ source.width >= 3
    /\ source.height >= 1
    /\ SampledCount(source) = (2 * source.width) \div 5
    /\ 5 * SampledCount(source) < 2 * source.width

---------------------------------------------------------------------------
(* C2 *)

\* C2: a run of find_unused_color_in_image tests red, green, blue, yellow,
\* cyan, magenta and then up to six random colors, in that order; every
\* candidate before the last tested one is in the image; the run returns
\* the last tested candidate when the image does not have it, and fails,
\* with its message, exactly when twelve candidates were tested and the
\* image has all of them.
C2_FirstUnusedCandidate ==
    Len(results) >= 1 =>
        LET res == results[Len(results)]
            n == Len(cands)
        IN  /\ n >= 1 /\ n <= 12
            /\ \A k \in 1..n : k <= 6 => /\ SameRgb(cands[k], FixedCandidates[k])
                                         /\ cands[k].a = 255
            /\ \A k \in 1..(n - 1) : Present(source, cands[k])
            /\ res.ok => /\ res.value = cands[n]
                         /\ ~Present(source, res.value)
            /\ ~res.ok <=> (n = 12 /\ \A k \in 1..12 : Present(source, cands[k]))
            /\ ~res.ok =>
                   res.msg = "unable to find unused color in image to use as key"

\* a run that returned a random candidate, the six fixed ones being in the
\* image
C2_Witness ==
    /\ Len(results) >= 1
    /\ results[Len(results)].ok
    /\ Len(cands) > 7

\* a run that failed
C2_WitnessExhausted ==
    /\ Len(results) >= 1
    /\ ~results[Len(results)].ok

---------------------------------------------------------------------------
(* C9 *)

SameResult(a, b) ==
    /\ a.ok = b.ok
    /\ IF a.ok THEN a.value = b.value ELSE a.msg = b.msg

\* C9 as stated: two runs of the search on the same image return the same
\* result.  (The function takes no random source and no seed: whatever the
\* caller does, each run draws from a generator of its own.)
C9_AsStated ==
    \A i \in DOMAIN results : \A j \in DOMAIN results :
        SameResult(results[i], results[j])

\* C9 amended: the random source is made inside the search and cannot be
\* seeded; two runs on the same image return the same result when one of
\* the six fixed candidates is not in the image, and that result is the
\* first such candidate.
C9_SameResultWhenFixedCandidateFree ==
    (\E k \in 1..6 : ~Present(source, FixedCandidates[k])) =>
        \A i \in DOMAIN results : \A j \in DOMAIN results :
            /\ SameResult(results[i], results[j])
            /\ results[i].ok
            /\ \E k \in 1..6 :
                 /\ SameRgb(results[i].value, FixedCandidates[k])
                 /\ ~Present(source, FixedCandidates[k])
                 /\ \A m \in 1..(k - 1) : Present(source, FixedCandidates[m])

\* two runs on an image that has red and green and not blue
C9_Witness ==
    /\ Len(results) >= 2
    /\ Present(source, FixedCandidates[1])
    /\ Present(source, FixedCandidates[2])
    /\ ~Present(source, FixedCandidates[3])

---------------------------------------------------------------------------
(* C3 *)

\* C3 as stated: in Color mode, an image without a pixel of zero alpha goes
\* to the clustering engine unmodified and with the all-zero key color.
C3_AsStated ==
    (config.color_mode = "Color" /\ ~HasZeroAlpha(source) /\ Len(calls) >= 1) =>
        /\ calls[1].config.key_color = ColorDefault
        /\ calls[1].image = source
        /\ key_color = ColorDefault

---------------------------------------------------------------------------
(* C7 *)

\* the keying loop has run
Keyed == should_key /\ Len(calls) >= 1

\* C7 as stated: once keying is applied, a pixel of zero alpha has the red,
\* green and blue of the key color and its own alpha (zero), and every
\* other pixel is unchanged.
C7_AsStated ==
    Keyed =>
        \A k \in DOMAIN source.pixels :
            IF source.pixels[k].a = 0
            THEN /\ SameRgb(calls[1].image.pixels[k], key_color)
                 /\ calls[1].image.pixels[k].a = source.pixels[k].a
            ELSE calls[1].image.pixels[k] = source.pixels[k]

\* C7 amended: once keying is applied, a pixel of zero alpha is the key
\* color in all four channels, so that its alpha is the alpha of the key
\* color, 255; every other pixel is unchanged.
C7_PixelBecomesKeyColor ==
    Keyed =>
        /\ key_color.a = 255
        /\ \A k \in DOMAIN source.pixels :
            IF source.pixels[k].a = 0
            THEN /\ SameRgb(calls[1].image.pixels[k], key_color)
                 /\ calls[1].image.pixels[k].a = 255
            ELSE calls[1].image.pixels[k] = source.pixels[k]

\* a keyed image with a pixel of zero alpha and a pixel of another alpha
C7_Witness ==
    /\ Keyed
    /\ \E k \in DOMAIN source.pixels : source.pixels[k].a = 0
    /\ \E k \in DOMAIN source.pixels : source.pixels[k].a # 0

---------------------------------------------------------------------------
(* C4 *)

Succeeded == pc = "done" /\ result.kind = "Ok"

PathClusters(document) ==
    [k \in DOMAIN document.paths |-> document.paths[k].path.cluster]

Reversed(seq) == [k \in 1..Len(seq) |-> seq[Len(seq) + 1 - k]]

\* C4: a Color conversion that succeeded has invoked the engine once in
\* Stacked and twice in Cutout; the engine is never invoked more often; the
\* image of a second invocation is the flattened composite of the view the
\* first one returned; and the paths are built from the clusters of the
\* last invocation.
C4_PassesOfTheEngine ==
    /\ (Succeeded /\ config.color_mode = "Color") =>
           Len(calls) = (IF config.hierarchical = "Cutout" THEN 2 ELSE 1)
    /\ Len(calls) <= 2
    /\ config.color_mode # "Color" => Len(calls) = 0
    /\ Len(calls) = 2 =>
           /\ config.hierarchical = "Cutout"
           /\ calls[2].image =
                  [width |-> calls[1].output.width,
                   height |-> calls[1].output.height,
                   flattened |-> calls[1].output.clusters_output]
    /\ (config.color_mode = "Color" /\ Len(svg) = 1) =>
           PathClusters(svg[1]) =
               Reversed([k \in DOMAIN calls[Len(calls)].output.clusters_output |->
                            calls[Len(calls)].output.clusters_output[k].index])

\* a Cutout conversion that succeeded, whose two passes emitted different
\* clusters
C4_Witness ==
    /\ Succeeded
    /\ config.hierarchical = "Cutout"
    /\ Len(calls) = 2
    /\ Len(calls[1].output.clusters_output) = 2
    /\ Len(calls[2].output.clusters_output) = 1

---------------------------------------------------------------------------
(* C6 *)

\* C6: the document of a Color conversion has one entry per cluster of the
\* final pass, and entry i (from 0) comes from emitted cluster n-1-i and has
\* its residue color.
C6_ReversePaintOrder ==
    (config.color_mode = "Color" /\ Len(svg) = 1) =>
        LET out == clusters.clusters_output
            n == Len(out)
        IN  /\ Len(svg[1].paths) = n
            /\ \A i \in 0..(n - 1) :
                 /\ svg[1].paths[i + 1].path.cluster = out[(n - 1 - i) + 1].index
                 /\ svg[1].paths[i + 1].color = out[(n - 1 - i) + 1].residue_color

\* a finished document of two clusters
C6_Witness ==
    /\ Succeeded
    /\ config.color_mode = "Color"
    /\ Len(clusters.clusters_output) >= 2
    /\ Len(svg[1].paths) >= 2

---------------------------------------------------------------------------
(* C10 *)

\* C10: the second pass of Cutout runs with non-diagonal adjacency, depth 64,
\* the batch size of the first pass, minimum area 0, maximum area the
\* composite's width times height, tolerances 0 and 1, deepen-step 0,
\* hollow-neighbours 0, keying-action Discard and the key color of the first
\* pass, which is all-zero when keying was not triggered.
C10_SecondPassConfig ==
    Len(calls) = 2 =>
        /\ calls[2].config =
               [diagonal |-> FALSE,
                hierarchical |-> 64,
                batch_size |-> calls[1].config.batch_size,
                good_min_area |-> 0,
                good_max_area |-> calls[2].image.width * calls[2].image.height,
                is_same_color_a |-> 0,
                is_same_color_b |-> 1,
                deepen_diff |-> 0,
                hollow_neighbours |-> 0,
                key_color |-> calls[1].config.key_color,
                keying_action |-> "Discard"]
        /\ ~should_key => calls[2].config.key_color = ColorDefault
        /\ should_key => calls[2].config.key_color = key_color

\* a second pass after keying, under settings that differ from the fixed
\* ones in every field
C10_Witness ==
    /\ Len(calls) = 2
    /\ should_key
    /\ config.color_precision_loss # 0
    /\ config.layer_difference # 0
    /\ config.filter_speckle_area # 0
    /\ calls[1].config.keying_action = "Keep"
    /\ calls[2].image.width * calls[2].image.height >= 2

---------------------------------------------------------------------------
(* C5 *)

\* C5: in Binary and Seg mode a component has a path in the document exactly
\* when its size is at least filter_speckle_area, it has one path then, and
\* every path is black.
C5_SpeckleFloor ==
    (config.color_mode \in {"Binary", "Seg"} /\ Len(svg) = 1) =>
        LET sizes == clusters.clusters_output
            paths == svg[1].paths
            PathsOf(c) == {j \in DOMAIN paths : paths[j].path.cluster = c}
        IN  /\ \A j \in DOMAIN paths :
                 /\ paths[j].path.cluster \in DOMAIN sizes
                 /\ sizes[paths[j].path.cluster] >= config.filter_speckle_area
                 /\ paths[j].color = [r |-> 0, g |-> 0, b |-> 0, a |-> 255]
            /\ \A c \in DOMAIN sizes :
                 Cardinality(PathsOf(c)) =
                     (IF sizes[c] >= config.filter_speckle_area THEN 1 ELSE 0)

\* a document with a component under the floor and a component that is
\* exactly at it
C5_Witness ==
    /\ config.color_mode \in {"Binary", "Seg"}
    /\ Len(svg) = 1
    /\ \E c \in DOMAIN clusters.clusters_output :
         clusters.clusters_output[c] < config.filter_speckle_area
    /\ \E c \in DOMAIN clusters.clusters_output :
         clusters.clusters_output[c] = config.filter_speckle_area
    /\ Len(svg[1].paths) >= 1

---------------------------------------------------------------------------
(* C8 *)

\* C8: convert_image_to_svg ends by returning a value, Ok or a failure with
\* a text; when it fails, the destination holds no part of the document;
\* when the read or the keying fails, the destination was never created.
C8_FailureIsReturned ==
    pc = "done" =>
        /\ result.kind \in {"Ok", "Err"}
        /\ result.kind = "Err" => (result.text # "" /\ file = "absent")
        /\ result.kind = "Ok" => file = "written"
        /\ file \in {"absent", "written"}

===========================================================================
